---- MODULE Spec2Model ----
(***************************************************************************)
(* A model of bokehjs' HoverTool (models/tools/inspectors/hover_tool.ts)   *)
(* and of the Tooltip it drives: the hit resolution of                     *)
(* HoverToolView._update, the controller (pointer moves, rebuilds of the   *)
(* renderer->Tooltip mapping, listener rewiring), the two-column template  *)
(* renderer and TooltipView._reposition.                                   *)
(*                                                                         *)
(* Conventions.  A nullable value is a sequence of length <= 1: <<>> is    *)
(* null and <<v>> is v.  A screen position [x, y] is the pair <<x, y>>,    *)
(* so a null position is <<>> as well.  JavaScript arrays are sequences    *)
(* read with At (0-based).  Style lengths are in half pixels.              *)
(***************************************************************************)
EXTENDS Integers, Sequences, FiniteSets, TLC

VARIABLES
  \* ---- HoverToolView (the controller) ----
  pc,          \* position of lazy_initialize
  active,      \* model.active
  mode,        \* model.mode
  line_policy, \* model.line_policy
  tooltips,    \* model.tooltips: the specification, [kind, id]
  template_view, \* _template_view: null, or the specification it was built from
  template_el, \* _template_el: null, or the specification it was compiled from
  renderers,   \* model.renderers, as the set computed_renderers yields
  rviews,      \* data renderers for which plot_view.renderer_view is not null
  ttmodels,    \* _ttmodels: glyph renderer -> Tooltip instance
  tts,         \* the Tooltip instances in _ttmodels: instance -> its properties
  listeners,   \* data sources whose inspect signal is connected to _update
  pending,     \* calls of _update_ttmodels suspended at await build_views
  next_id,     \* Tooltips / rebuilds are numbered as they are created
  inspected,   \* per data renderer, the geometry last given to its selection manager
  raised,      \* whether the last handler threw
  last,        \* what the last handler was and did
  muted_policy, \* model.muted_policy
  muted,       \* the glyph renderers whose muted flag is set
  callback,    \* whether model.callback is non-null
  calls,       \* the invocations of the callback by the last handler, in order
  notified,    \* the Tooltips whose position change was signalled by the last handler
  \* ---- hit resolution as a pure function ----
  h_in, h_out,
  \* ---- TooltipView ----
  tv_in, tv_el, tv_side, tv_prev,
  \* ---- HoverToolView._render_template ----
  tp_in, tp_out

ctl_vars == <<pc, active, mode, line_policy, tooltips, template_view, template_el, renderers, rviews, ttmodels, tts, listeners, pending, next_id, inspected, raised, last, muted_policy, muted, callback, calls, notified>>
cfg_vars == <<muted_policy, muted, callback>>
hit_vars == <<h_in, h_out>>
tv_vars == <<tv_in, tv_el, tv_side, tv_prev>>
tp_vars == <<tp_in, tp_out>>
vars == <<ctl_vars, hit_vars, tv_vars, tp_vars>>

\* ------------------------------------------------------------------ bounds
\* pointer and sample coordinates of the hit-resolution inputs are 0..MaxPtr
MaxPtr == 3
\* at most MaxRebuilds calls of _update_ttmodels in one behaviour
MaxRebuilds == 3

\* ------------------------------------------------------------- basic values
Null == <<>>
Some(v) == <<v>>
At(arr, i) == arr[i + 1]
Abs(a) == IF a < 0 THEN 0 - a ELSE a
Infinity == 1000000

RECURSIVE Flatten(_)
Flatten(ss) == IF ss = <<>> THEN <<>> ELSE Head(ss) \o Flatten(Tail(ss))
SeqMap(f(_), s) == [k \in 1..Len(s) |-> f(s[k])]

\* ---------------------------------------------------------------- geometry
\* HoverToolView._inspect, lines 207-213: the query built from the mode
build_geometry(m, sx, sy) ==
  IF m = "mouse"
    THEN [type |-> "point", direction |-> "-", sx |-> sx, sy |-> sy]
    ELSE [type |-> "span", direction |-> (IF m = "vline" THEN "h" ELSE "v"), sx |-> sx, sy |-> sy]

\* core/hittest dist_2_pts: the squared Euclidean distance
dist_2_pts(px, py, qx, qy) == (px - qx) * (px - qx) + (py - qy) * (py - qy)

\* the coordinate scales of a renderer view: x shifts, y flips
x_invert(sx) == sx - 1
y_invert(sy) == 0 - sy
x_compute(x) == x + 1
y_compute(y) == 0 - y

\* ------------------------------------------------------- line hit policies
nearest_dists(i, geometry, sx, sy, dx, dy) ==
  IF geometry.type = "span"
    THEN IF geometry.direction = "h"
           THEN <<Abs(At(dx, i) - sx), Abs(At(dx, i + 1) - sx)>>
           ELSE <<Abs(At(dy, i) - sy), Abs(At(dy, i + 1) - sy)>>
    ELSE <<dist_2_pts(At(dx, i), At(dy, i), sx, sy), dist_2_pts(At(dx, i + 1), At(dy, i + 1), sx, sy)>>

\* a slip: the span axes swapped
mut_nearest_line_hit(i, geometry, sx, sy, dx, dy) ==
  LET d == nearest_dists(i, [geometry EXCEPT !.direction = IF @ = "h" THEN "v" ELSE "h"], sx, sy, dx, dy)
  IN  IF d[1] < d[2]
        THEN <<<<At(dx, i), At(dy, i)>>, i>>
        ELSE <<<<At(dx, i + 1), At(dy, i + 1)>>, i + 1>>

_nearest_line_hit(i, geometry, sx, sy, dx, dy) ==
  LET d == nearest_dists(i, geometry, sx, sy, dx, dy)
  IN  IF d[1] < d[2]
        THEN <<<<At(dx, i), At(dy, i)>>, i>>
        ELSE <<<<At(dx, i + 1), At(dy, i + 1)>>, i + 1>>

\* a slip: the hit keeps the index but reads the next sample
mut_line_hit(xs, ys, ind) == <<<<At(xs, ind + 1), At(ys, ind + 1)>>, ind>>

_line_hit(xs, ys, ind) == <<<<At(xs, ind), At(ys, ind)>>, ind>>

\* ---------------------------------------------------------- glyphs, selections
\* A glyph view g: [kind, sx, sy, anchors_ok].  kind is the class _update tests
\* with instanceof ("patch", "varea", "line", "multi_line", or anything else,
\* here "scatter" and "image"); sx, sy are its screen series; its data series
\* are their images under the scales.  anchors_ok says which named anchors
\* get_anchor_point resolves: "all", "center", "none", or "not_first" (all
\* of them but for sample 0, none for sample 0).
glyph_x(g) == SeqMap(x_invert, g.sx)
glyph_y(g) == SeqMap(y_invert, g.sy)
\* MultiLineView: the series of path i (sxs.get(i), sys.get(i), _xs.get(i), _ys.get(i))
path_sx(g, i) == [k \in 1..Len(g.sx) |-> g.sx[k] + i]
path_sy(g, i) == g.sy
path_x(g, i) == SeqMap(x_invert, path_sx(g, i))
path_y(g, i) == SeqMap(y_invert, path_sy(g, i))

\* GlyphView.get_interpolation_hit: a data-space point at the query location
get_interpolation_hit(g, i, geometry) == <<x_invert(geometry.sx), y_invert(geometry.sy)>>

\* the named anchor of a marker, from its centre: a marker spans one unit
\* to each side
anchor_offset(anchor) == IF anchor = "center" THEN <<0, 0>> ELSE <<0 - 1, 0 - 1>>

\* GlyphView.get_anchor_point(anchor, i, [sx, sy]): the screen point of the
\* anchor of sample i, or null
get_anchor_point(g, anchor, i) ==
  IF \/ g.anchors_ok = "all"
     \/ g.anchors_ok = "center" /\ anchor = "center"
     \/ g.anchors_ok = "not_first" /\ i # 0
    THEN Some(<<At(g.sx, i) + anchor_offset(anchor)[1], At(g.sy, i) + anchor_offset(anchor)[2]>>)
    ELSE Null

\* A Selection: [indices, line_indices, multiline_indices, image_indices, view].
\* indices, line_indices and image_indices are arrays; multiline_indices maps an
\* outer index to an array of segment indices; view is the marker a hit test
\* sets when it selects the glyph as a whole.
empty_selection == [indices |-> <<>>, line_indices |-> <<>>, multiline_indices |-> <<>>, image_indices |-> <<>>, view |-> FALSE]
selection_is_empty(s) == s.indices = <<>> /\ s.line_indices = <<>> /\ s.image_indices = <<>>
is_empty(obj) == DOMAIN obj = {}

\* CDSView with a filter that drops the first off samples of the data source:
\* subset index k is full index k + off
convert_selection_to_subset(s, off) ==
  [s EXCEPT !.indices = SeqMap(LAMBDA i: i - off, @),
            !.multiline_indices = [k \in {i - off : i \in DOMAIN @} |-> @[k + off]]]
convert_indices_from_subset(i, off) == i + off

\* the variable bag of one hit (TooltipVars) with its anchor
hit_vars_of(index, geometry, tt_x, tt_y, tt_sx, tt_sy, seg) ==
  [index |-> index, x |-> x_invert(geometry.sx), y |-> y_invert(geometry.sy),
   sx |-> geometry.sx, sy |-> geometry.sy,
   tt_x |-> tt_x, tt_y |-> tt_y, tt_sx |-> tt_sx, tt_sy |-> tt_sy, segment_index |-> seg]

raw_hit(index, geometry) ==
  hit_vars_of(index, geometry, x_invert(geometry.sx), y_invert(geometry.sy), geometry.sx, geometry.sy, Null)

\* a slip: the patch hit carries the first sample as its index
mut_patch_hits(g, geometry) ==
  IF g.kind = "patch" THEN <<raw_hit(Some(0), geometry)>> ELSE <<>>

\* lines 265-275
patch_hits(g, geometry) ==
  IF g.kind = "patch" THEN <<raw_hit(Null, geometry)>> ELSE <<>>

\* lines 277-290
area_hits(g, sub, geometry) ==
  IF g.kind = "varea" THEN SeqMap(LAMBDA i: raw_hit(Some(i), geometry), sub.line_indices) ELSE <<>>

\* the switch on line_policy, lines 300-324 and 359-382, for segment i of the
\* series (ssx, ssy) with data series (xs, ys): the anchor, the index reported
\* and the data coordinates.  first is the sample whose data coordinates are
\* read before the switch (lines 294-295: i + 1; lines 353-354: j).  The
\* default arm is the polyline's; the multi-segment default throws before
\* this is used.
line_policy_hit(policy, i, geometry, ssx, ssy, xs, ys, first) ==
  LET sx == geometry.sx
      sy == geometry.sy
  IN  CASE policy = "prev" ->
             LET res == _line_hit(ssx, ssy, i)
             IN  [tt_sx |-> res[1][1], tt_sy |-> res[1][2], ii |-> res[2],
                  tt_x |-> At(xs, first), tt_y |-> At(ys, first)]
        [] policy = "next" ->
             LET res == _line_hit(ssx, ssy, i + 1)
             IN  [tt_sx |-> res[1][1], tt_sy |-> res[1][2], ii |-> res[2],
                  tt_x |-> At(xs, first), tt_y |-> At(ys, first)]
        [] policy = "nearest" ->
             LET res == _nearest_line_hit(i, geometry, sx, sy, ssx, ssy)
             IN  [tt_sx |-> res[1][1], tt_sy |-> res[1][2], ii |-> res[2],
                  tt_x |-> At(xs, res[2]), tt_y |-> At(ys, res[2])]
        [] OTHER ->
             [tt_sx |-> sx, tt_sy |-> sy, ii |-> i,
              tt_x |-> At(xs, first), tt_y |-> At(ys, first)]

\* a slip: the interpolated point is used as the anchor without the scales
mut_line_hits(g, sub, geometry, policy) ==
  IF g.kind # "line" THEN <<>>
  ELSE SeqMap(LAMBDA i:
         IF policy = "interp"
           THEN LET pt == get_interpolation_hit(g, i, geometry)
                IN  hit_vars_of(Some(i), geometry, pt[1], pt[2], pt[1], pt[2], Null)
           ELSE LET h == line_policy_hit(policy, i, geometry, g.sx, g.sy, glyph_x(g), glyph_y(g), i + 1)
                IN  hit_vars_of(Some(h.ii), geometry, h.tt_x, h.tt_y, h.tt_sx, h.tt_sy, Null),
         sub.line_indices)

\* lines 292-335
line_hits(g, sub, geometry, policy) ==
  IF g.kind # "line" THEN <<>>
  ELSE SeqMap(LAMBDA i:
         IF policy = "interp"
           THEN LET pt == get_interpolation_hit(g, i, geometry)
                IN  hit_vars_of(Some(i), geometry, pt[1], pt[2], x_compute(pt[1]), y_compute(pt[2]), Null)
           ELSE LET h == line_policy_hit(policy, i, geometry, g.sx, g.sy, glyph_x(g), glyph_y(g), i + 1)
                IN  hit_vars_of(Some(h.ii), geometry, h.tt_x, h.tt_y, h.tt_sx, h.tt_sy, Null),
         sub.line_indices)

\* lines 337-347
image_hits(full, geometry) ==
  SeqMap(LAMBDA idx: raw_hit(Some(idx), geometry), full.image_indices)

LinePolicies4 == {"interp", "prev", "next", "nearest"}

\* line 351: the index i is resolved as a multi-segment hit
is_multi(g, sub) == g.kind = "multi_line" /\ ~is_empty(sub.multiline_indices)

\* lines 352-395: the hits of outer index i of a multi-segment glyph
multi_line_hits(g, sub, i, geometry, policy, off) ==
  SeqMap(LAMBDA j:
         IF policy = "interp"
           THEN LET pt == get_interpolation_hit(g, j, geometry)
                IN  hit_vars_of(Some(convert_indices_from_subset(i, off)), geometry,
                                pt[1], pt[2], x_compute(pt[1]), y_compute(pt[2]), Some(j))
           ELSE LET h == line_policy_hit(policy, j, geometry, path_sx(g, i), path_sy(g, i), path_x(g, i), path_y(g, i), j)
                IN  hit_vars_of(Some(convert_indices_from_subset(i, off)), geometry,
                                h.tt_x, h.tt_y, h.tt_sx, h.tt_sy, Some(h.ii)),
         sub.multiline_indices[i])

\* a slip: no second try with the center anchor
mut_point_hits(g, i, geometry, cfg, off) ==
  LET tt_x == At(glyph_x(g), i)
      tt_y == At(glyph_y(g), i)
      index == Some(convert_indices_from_subset(i, off))
  IN  IF cfg.point_policy = "snap_to_data"
        THEN LET pt == get_anchor_point(g, cfg.anchor, i)
             IN  IF pt = Null THEN <<>>
                 ELSE <<hit_vars_of(index, geometry, tt_x, tt_y, pt[1][1], pt[1][2], Null)>>
        ELSE <<hit_vars_of(index, geometry, tt_x, tt_y, geometry.sx, geometry.sy, Null)>>

\* lines 396-428: the hit of plain index i, none when no anchor point resolves
point_hits(g, i, geometry, cfg, off) ==
  LET tt_x == At(glyph_x(g), i)
      tt_y == At(glyph_y(g), i)
      index == Some(convert_indices_from_subset(i, off))
  IN  IF cfg.point_policy = "snap_to_data"
        THEN LET pt1 == get_anchor_point(g, cfg.anchor, i)
                 pt == IF pt1 = Null THEN get_anchor_point(g, "center", i) ELSE pt1
             IN  IF pt = Null THEN <<>>
                 ELSE <<hit_vars_of(index, geometry, tt_x, tt_y, pt[1][1], pt[1][2], Null)>>
        ELSE <<hit_vars_of(index, geometry, tt_x, tt_y, geometry.sx, geometry.sy, Null)>>

\* lines 349-429
index_hits(g, sub, geometry, cfg, off) ==
  Flatten(SeqMap(LAMBDA i:
            IF is_multi(g, sub)
              THEN multi_line_hits(g, sub, i, geometry, cfg.line_policy, off)
              ELSE point_hits(g, i, geometry, cfg, off),
            sub.indices))

\* line 381: the throw of the multi-segment default arm
update_throws(g, sub, cfg) ==
  /\ is_multi(g, sub)
  /\ cfg.line_policy \notin LinePolicies4
  /\ \E k \in 1..Len(sub.indices) : sub.multiline_indices[sub.indices[k]] # <<>>

\* lines 255-429 of _update: the ordered hits of one renderer, or the throw
resolve_hits(g, full, geometry, cfg, off) ==
  LET sub == convert_selection_to_subset(full, off)
  IN  IF update_throws(g, sub, cfg)
        THEN [err |-> TRUE, hits |-> <<>>]
        ELSE [err |-> FALSE,
              hits |-> patch_hits(g, geometry) \o area_hits(g, sub, geometry)
                       \o line_hits(g, sub, geometry, cfg.line_policy)
                       \o image_hits(full, geometry)
                       \o index_hits(g, sub, geometry, cfg, off)]

\* ======================================================================
\* Hit resolution as a pure function: the inputs are drawn by the initial
\* state and the one action applies lines 255-429 of _update to them, for
\* the pointer and for the pointer mirrored in the input square.
\* ======================================================================
Coords == 0..MaxPtr
Modes == {"mouse", "vline", "hline"}
LinePolicies == {"interp", "prev", "next", "nearest", "none"}
PointPolicies == {"snap_to_data", "none"}

\* three samples, each coordinate at an end of the input range
SeriesSet == {<<0, MaxPtr, MaxPtr>>, <<0, MaxPtr, 0>>, <<MaxPtr, 0, 0>>, <<0, 0, MaxPtr>>}

sel_with(ind, line, multi, image, view) ==
  [indices |-> ind, line_indices |-> line, multiline_indices |-> multi, image_indices |-> image, view |-> view]

\* what a hit test of each glyph kind can select, as subset indices
LineSelections == {sel_with(<<>>, l, <<>>, <<>>, FALSE) : l \in {<<0>>, <<1>>, <<0, 1>>}}
AreaSelections == {sel_with(<<>>, l, <<>>, <<>>, FALSE) : l \in {<<0>>, <<0, 1>>}}
PatchSelections == {sel_with(<<>>, <<>>, <<>>, <<>>, TRUE), sel_with(<<0>>, <<>>, <<>>, <<>>, TRUE), sel_with(<<0>>, <<>>, <<>>, <<>>, FALSE)}
ImageSelections == {sel_with(<<>>, <<>>, <<>>, im, FALSE) : im \in {<<2>>, <<1, 2>>}}
ScatterSelections == {sel_with(ind, <<>>, <<>>, <<>>, FALSE) : ind \in {<<0>>, <<1>>, <<0, 1>>}}
MultiSelections ==
  {sel_with(<<0>>, <<>>, (0 :> <<0>>), <<>>, FALSE),
   sel_with(<<0, 1>>, <<>>, (0 :> <<0, 1>>) @@ (1 :> <<1>>), <<>>, FALSE),
   sel_with(<<1>>, <<>>, (1 :> <<>>), <<>>, FALSE),
   sel_with(<<0>>, <<>>, <<>>, <<>>, FALSE)}

\* the selection of the full data source a subset selection comes from
to_full(s, off) ==
  [s EXCEPT !.indices = SeqMap(LAMBDA i: i + off, @),
            !.multiline_indices = [k \in {i + off : i \in DOMAIN @} |-> @[k - off]]]

hit_input(kind, ssx, ssy, anchors_ok, sel, off, lp, pp, anchor, m, sx, sy) ==
  [g |-> [kind |-> kind, sx |-> ssx, sy |-> ssy, anchors_ok |-> anchors_ok],
   full |-> to_full(sel, off), off |-> off,
   cfg |-> [line_policy |-> lp, point_policy |-> pp, anchor |-> anchor],
   mode |-> m, sx |-> sx, sy |-> sy]

HitInputs ==
  {hit_input("line", ssx, ssy, "all", sel, 0, lp, "none", "center", m, sx, sy) :
      ssx \in SeriesSet, ssy \in {<<0, 0, MaxPtr>>, <<MaxPtr, 0, 0>>}, sel \in LineSelections, lp \in LinePolicies,
      m \in Modes, sx \in Coords, sy \in Coords}
  \cup
  {hit_input("multi_line", ssx, ssy, "all", sel, off, lp, "none", "center", m, sx, sy) :
      ssx \in {<<0, MaxPtr, 0>>}, ssy \in {<<0, 0, MaxPtr>>, <<MaxPtr, 0, 0>>}, sel \in MultiSelections, off \in {0, 1},
      lp \in LinePolicies, m \in Modes, sx \in Coords, sy \in Coords}
  \cup
  {hit_input("scatter", <<0, MaxPtr, 0>>, <<0, 0, MaxPtr>>, ok, sel, off, "nearest", pp, anchor, m, sx, sy) :
      ok \in {"all", "center", "none", "not_first"}, sel \in ScatterSelections, off \in {0, 1},
      pp \in PointPolicies, anchor \in {"center", "top_left"}, m \in {"mouse"}, sx \in Coords, sy \in Coords}
  \cup
  {hit_input(ks[1], <<0, MaxPtr, 0>>, <<0, 0, MaxPtr>>, "all", ks[2], 0, lp, pp, "center", m, sx, sy) :
      ks \in {<<"patch", s>> : s \in PatchSelections} \cup {<<"varea", s>> : s \in AreaSelections}
             \cup {<<"image", s>> : s \in ImageSelections},
      lp \in {"nearest", "none"}, pp \in PointPolicies, m \in {"mouse", "vline"}, sx \in Coords, sy \in Coords}

hits_at(in, sx, sy) ==
  resolve_hits(in.g, in.full, build_geometry(in.mode, sx, sy), in.cfg, in.off)

HitInit ==
  /\ h_in \in HitInputs
  /\ h_out = [done |-> FALSE, err |-> FALSE, hits |-> <<>>, alt |-> <<>>]

HitIdle ==
  /\ h_in = <<>>
  /\ h_out = <<>>

\* _update resolves the hits of the selection
HitApply ==
  /\ ~h_out.done
  /\ h_out' = [done |-> TRUE,
               err |-> hits_at(h_in, h_in.sx, h_in.sy).err,
               hits |-> hits_at(h_in, h_in.sx, h_in.sy).hits,
               alt |-> hits_at(h_in, MaxPtr - h_in.sx, MaxPtr - h_in.sy).hits]
  /\ UNCHANGED <<h_in, ctl_vars, tv_vars, tp_vars>>

\* the parts of the state a specification does not use stay as they start
CtlIdle ==
  /\ pc = "idle" /\ active = FALSE /\ mode = "mouse" /\ line_policy = "nearest"
  /\ tooltips = <<>> /\ template_view = <<>> /\ template_el = <<>> /\ renderers = {} /\ rviews = {} /\ ttmodels = <<>> /\ tts = <<>>
  /\ listeners = {} /\ pending = {} /\ next_id = 0 /\ inspected = <<>>
  /\ raised = FALSE /\ last = <<>>
  /\ muted_policy = "show" /\ muted = {} /\ callback = FALSE /\ calls = <<>> /\ notified = {}

TvIdle ==
  /\ tv_in = <<>> /\ tv_el = <<>> /\ tv_side = <<>> /\ tv_prev = <<>>

TpIdle ==
  /\ tp_in = <<>> /\ tp_out = <<>>

HitNext == HitApply

SpecHitInit == HitInit /\ CtlIdle /\ TvIdle /\ TpIdle

SpecHit == SpecHitInit /\ [][HitNext]_vars

\* ---------------------------------------------------------------- claims
\* hits of the polyline / multi-segment branch pair up with the segments selected
hit_segments(in) ==
  IF in.g.kind = "line" THEN in.full.line_indices
  ELSE Flatten(SeqMap(LAMBDA i: SeqMap(LAMBDA j: j, convert_selection_to_subset(in.full, in.off).multiline_indices[i]),
                      convert_selection_to_subset(in.full, in.off).indices))

\* the outer (path) index each multi-segment hit belongs to
hit_paths(in) ==
  Flatten(SeqMap(LAMBDA i: SeqMap(LAMBDA j: i, convert_selection_to_subset(in.full, in.off).multiline_indices[i]),
                 convert_selection_to_subset(in.full, in.off).indices))

\* the screen series a hit's segment lies on
hit_series(in, k) ==
  IF in.g.kind = "line" THEN <<in.g.sx, in.g.sy>>
  ELSE <<path_sx(in.g, hit_paths(in)[k]), path_sy(in.g, hit_paths(in)[k])>>

\* the index a line policy reports: the canonical index of a polyline hit, the
\* segment index of a multi-segment hit
reported(in, hit) == IF in.g.kind = "line" THEN hit.index ELSE hit.segment_index

is_line_case(in, out, policies) ==
  /\ out.done /\ ~out.err
  /\ in.g.kind \in {"line", "multi_line"}
  /\ in.g.kind = "multi_line" => ~is_empty(in.full.multiline_indices)
  /\ in.cfg.line_policy \in policies

\* the claim's own measure: sample p is strictly closer to the pointer than sample q
C3_closer(m, px, py, qx, qy, sx, sy) ==
  CASE m = "mouse" -> (px - sx) * (px - sx) + (py - sy) * (py - sy) < (qx - sx) * (qx - sx) + (qy - sy) * (qy - sy)
    [] m = "vline" -> Abs(px - sx) < Abs(qx - sx)
    [] m = "hline" -> Abs(py - sy) < Abs(qy - sy)

\* C3: under the nearest line policy a hit on segment i reports the anchor and
\* the index of whichever of samples i and i+1 is closer to the pointer: by
\* Euclidean distance for a point query, by x alone for the span of vline mode,
\* by y alone for the span of hline mode.  Samples (0,0),(10,0): the pointer
\* (3,0) resolves to (0,0), index i, and (8,0) to (10,0), index i+1.
C3_Nearest ==
  /\ is_line_case(h_in, h_out, {"nearest"}) =>
       \A k \in 1..Len(h_out.hits) :
         LET i == hit_segments(h_in)[k]
             ser == hit_series(h_in, k)
             p == <<At(ser[1], i), At(ser[2], i)>>
             q == <<At(ser[1], i + 1), At(ser[2], i + 1)>>
             hit == h_out.hits[k]
         IN  /\ C3_closer(h_in.mode, p[1], p[2], q[1], q[2], h_in.sx, h_in.sy) =>
                  (<<hit.tt_sx, hit.tt_sy>> = p /\ reported(h_in, hit) = Some(i))
             /\ C3_closer(h_in.mode, q[1], q[2], p[1], p[2], h_in.sx, h_in.sy) =>
                  (<<hit.tt_sx, hit.tt_sy>> = q /\ reported(h_in, hit) = Some(i + 1))
  /\ _nearest_line_hit(0, build_geometry("mouse", 3, 0), 3, 0, <<0, 10>>, <<0, 0>>) = <<<<0, 0>>, 0>>
  /\ _nearest_line_hit(0, build_geometry("mouse", 8, 0), 8, 0, <<0, 10>>, <<0, 0>>) = <<<<10, 0>>, 1>>
  /\ _nearest_line_hit(0, build_geometry("vline", 3, 9), 3, 9, <<0, 10>>, <<0, 9>>) = <<<<0, 0>>, 0>>
  /\ _nearest_line_hit(0, build_geometry("hline", 9, 3), 9, 3, <<0, 9>>, <<0, 10>>) = <<<<0, 0>>, 0>>

\* C3's case: a vline query whose segment's upper sample is closer in x although
\* the lower one is closer in y, resolved to the upper sample
C3_Witness ==
  /\ is_line_case(h_in, h_out, {"nearest"})
  /\ h_in.g.kind = "line" /\ h_in.mode = "vline" /\ Len(h_out.hits) = 1
  /\ LET i == h_in.full.line_indices[1]
     IN  /\ Abs(At(h_in.g.sx, i + 1) - h_in.sx) < Abs(At(h_in.g.sx, i) - h_in.sx)
         /\ Abs(At(h_in.g.sy, i) - h_in.sy) < Abs(At(h_in.g.sy, i + 1) - h_in.sy)
         /\ h_out.hits[1].index = Some(i + 1)
         /\ h_out.hits[1].tt_sx = At(h_in.g.sx, i + 1)

\* C4: under prev and next, for polyline and multi-segment glyphs, the anchor
\* and the index reported are a function of the segment alone: prev reports
\* sample i, next sample i+1, and a pointer elsewhere on the same segment
\* resolves to the same anchor and the same canonical index.
C4_PrevNext ==
  is_line_case(h_in, h_out, {"prev", "next"}) =>
    /\ Len(h_out.alt) = Len(h_out.hits)
    /\ \A k \in 1..Len(h_out.hits) :
         LET i == hit_segments(h_in)[k]
             ser == hit_series(h_in, k)
             s == IF h_in.cfg.line_policy = "prev" THEN i ELSE i + 1
             hit == h_out.hits[k]
         IN  /\ <<hit.tt_sx, hit.tt_sy>> = <<At(ser[1], s), At(ser[2], s)>>
             /\ reported(h_in, hit) = Some(s)
             /\ h_in.g.kind = "multi_line" =>
                  hit.index = Some(convert_indices_from_subset(hit_paths(h_in)[k], h_in.off))
             /\ <<h_out.alt[k].tt_sx, h_out.alt[k].tt_sy>> = <<hit.tt_sx, hit.tt_sy>>
             /\ h_out.alt[k].index = hit.index
             /\ h_out.alt[k].segment_index = hit.segment_index

\* C4's case: a next-policy hit of a multi-segment glyph whose pointer and
\* mirrored pointer differ and lie nearer to the segment's lower sample
C4_Witness ==
  /\ is_line_case(h_in, h_out, {"next"})
  /\ h_in.g.kind = "multi_line" /\ Len(h_out.hits) = 3
  /\ <<h_in.sx, h_in.sy>> # <<MaxPtr - h_in.sx, MaxPtr - h_in.sy>>
  /\ h_out.hits[1].segment_index = Some(hit_segments(h_in)[1] + 1)
  /\ h_out.alt[1].tt_sx = h_out.hits[1].tt_sx

\* ======================================================================
\* TooltipView: _reposition on the tooltip's element.
\* tv_in: the model's position (<<>> null, <<name>> a named anchor, <<x, y>>
\* literal coordinates), visible and attachment, the target's bounding box
\* and the element's measured sizes.  tv_el: display, the side classes and
\* the top/left/right styles (<<>> when "", <<v>> in half pixels).
\* ======================================================================
MaxBox == 2
arrow_size == 10

Sides == {"left", "right", "above", "below"}
Attachments == {"horizontal", "vertical"} \cup Sides

\* lines 701-729: [valign, halign]
_anchor_to_align(anchor) ==
  CASE anchor = "top_left" -> <<"top", "left">>
    [] anchor \in {"top", "top_center"} -> <<"top", "center">>
    [] anchor = "top_right" -> <<"top", "right">>
    [] anchor \in {"left", "center_left"} -> <<"center", "left">>
    [] anchor \in {"center", "center_center"} -> <<"center", "center">>
    [] anchor \in {"right", "center_right"} -> <<"center", "right">>
    [] anchor = "bottom_left" -> <<"bottom", "left">>
    [] anchor \in {"bottom", "bottom_center"} -> <<"bottom", "center">>
    [] anchor = "bottom_right" -> <<"bottom", "right">>

\* lines 741-761: the anchor point [sx, sy], in half pixels
anchor_point2(position, bbox) ==
  IF Len(position) = 1
    THEN LET al == _anchor_to_align(position[1])
         IN  <<CASE al[2] = "left" -> 2 * bbox.left
                 [] al[2] = "center" -> bbox.left + bbox.right
                 [] al[2] = "right" -> 2 * bbox.right,
               CASE al[1] = "top" -> 2 * bbox.top
                 [] al[1] = "center" -> bbox.top + bbox.bottom
                 [] al[1] = "bottom" -> 2 * bbox.bottom>>
    ELSE <<2 * position[1], 2 * position[2]>>

\* a slip: the anchor at the centre goes to the near side
mut_side_of(attachment, sx2, sy2, bbox) ==
  CASE attachment = "horizontal" -> IF sx2 <= bbox.left + bbox.right THEN "right" ELSE "left"
    [] attachment = "vertical" -> IF sy2 <= bbox.top + bbox.bottom THEN "below" ELSE "above"
    [] OTHER -> attachment

\* lines 763-773: the side, for the anchor point in half pixels
\* (hcenter = (left + right)/2, vcenter = (top + bottom)/2)
side_of(attachment, sx2, sy2, bbox) ==
  CASE attachment = "horizontal" -> IF sx2 < bbox.left + bbox.right THEN "right" ELSE "left"
    [] attachment = "vertical" -> IF sy2 < bbox.top + bbox.bottom THEN "below" ELSE "above"
    [] OTHER -> attachment

\* Math.round of v2 half pixels, in pixels
round_half(v2) == (v2 + 1) \div 2

\* lines 786-806: the class of the element for a side (the class names the
\* side of the tooltip the annotated point is on)
side_class(side) ==
  CASE side = "right" -> "left"
    [] side = "left" -> "right"
    [] side = "below" -> "above"
    [] side = "above" -> "below"

\* a slip: side left writes the left style as the other sides do
mut_shown_styles(in, side, p) ==
  [top |-> Some(p[2] - in.offsetHeight),
   left |-> Some(p[1] + 2 * (in.offsetWidth - in.clientWidth) + 2 * arrow_size),
   right |-> IF side = "left" THEN Some(2 * in.offsetWidth - p[1] + 2 * arrow_size) ELSE Null]

\* lines 782-811: the top/left/right styles written for anchor point p
shown_styles(in, side, p) ==
  CASE side = "right" ->
         [top |-> Some(p[2] - in.offsetHeight),
          left |-> Some(p[1] + 2 * (in.offsetWidth - in.clientWidth) + 2 * arrow_size),
          right |-> Null]
    [] side = "left" ->
         [top |-> Some(p[2] - in.offsetHeight),
          left |-> Null,
          right |-> Some(2 * in.offsetWidth - p[1] + 2 * arrow_size)]
    [] side = "below" ->
         [top |-> Some(p[2] + 2 * (in.offsetHeight - in.clientHeight) + 2 * arrow_size),
          left |-> Some(2 * round_half(p[1] - in.offsetWidth)),
          right |-> Null]
    [] side = "above" ->
         [top |-> Some(p[2] - 2 * in.offsetHeight - 2 * arrow_size),
          left |-> Some(2 * round_half(p[1] - in.offsetWidth)),
          right |-> Null]

\* a slip: the side class is toggled and the old ones are not removed
mut_shown_el(el, in, side, p) ==
  [display |-> TRUE,
   classes |-> IF side_class(side) \in el.classes
                 THEN el.classes \ {side_class(side)}
                 ELSE el.classes \cup {side_class(side)}]
  @@ shown_styles(in, side, p)

\* lines 738, 775-811: the element once shown on side `side` of anchor point p
shown_el(el, in, side, p) ==
  [display |-> TRUE, classes |-> (el.classes \ Sides) \cup {side_class(side)}]
  @@ shown_styles(in, side, p)

\* a slip: the element is hidden for a null position only
mut_reposition(el, in) ==
  IF in.position = Null
    THEN [el EXCEPT !.display = FALSE]
    ELSE LET p == anchor_point2(in.position, in.bbox)
         IN  shown_el(el, in, side_of(in.attachment, p[1], p[2], in.bbox), p)

\* lines 731-812
reposition(el, in) ==
  IF in.position = Null \/ ~in.visible
    THEN [el EXCEPT !.display = FALSE]
    ELSE LET p == anchor_point2(in.position, in.bbox)
         IN  shown_el(el, in, side_of(in.attachment, p[1], p[2], in.bbox), p)

\* the side the last run of _reposition chose, null when it hid the element
reposition_side(in) ==
  IF in.position = Null \/ ~in.visible
    THEN Null
    ELSE LET p == anchor_point2(in.position, in.bbox)
         IN  Some(side_of(in.attachment, p[1], p[2], in.bbox))

TvPositions ==
  {Null} \cup {<<a>> : a \in {"top_left", "center", "bottom_right"}}
         \cup {<<x, y>> : x \in 0..MaxBox, y \in 0..MaxBox}

TvInit ==
  /\ tv_in \in [position : {Null}, visible : {TRUE}, attachment : Attachments,
                bbox : {[left |-> 0, top |-> 0, right |-> w, bottom |-> MaxBox] : w \in {MaxBox - 1, MaxBox}},
                offsetWidth : {3}, clientWidth : {1, 3}, offsetHeight : {2}, clientHeight : {1}]
  /\ tv_el = [display |-> FALSE, classes |-> {}, top |-> Null, left |-> Null, right |-> Null]
  /\ tv_side = Null
  /\ tv_prev = [calls |-> 0, el |-> <<>>]

\* a change of the model's position: the handler of line 669 runs _reposition
TvSetPosition(p) ==
  /\ p # tv_in.position
  /\ tv_in' = [tv_in EXCEPT !.position = p]
  /\ tv_el' = reposition(tv_el, tv_in')
  /\ tv_side' = reposition_side(tv_in')
  /\ tv_prev' = [calls |-> 1, el |-> <<>>]
  /\ UNCHANGED <<ctl_vars, hit_vars, tp_vars>>

\* a change of the model's visible
TvSetVisible ==
  /\ tv_in' = [tv_in EXCEPT !.visible = ~@]
  /\ tv_el' = reposition(tv_el, tv_in')
  /\ tv_side' = reposition_side(tv_in')
  /\ tv_prev' = [calls |-> 1, el |-> <<>>]
  /\ UNCHANGED <<ctl_vars, hit_vars, tp_vars>>

\* _reposition run with nothing changed (the last step of render, line 698)
TvReposition ==
  /\ tv_prev.calls < 2
  /\ tv_el' = reposition(tv_el, tv_in)
  /\ tv_side' = reposition_side(tv_in)
  /\ tv_prev' = [calls |-> tv_prev.calls + 1, el |-> IF tv_prev.calls = 1 THEN tv_el ELSE <<>>]
  /\ UNCHANGED <<tv_in, ctl_vars, hit_vars, tp_vars>>

TvNext ==
  \/ \E p \in TvPositions : TvSetPosition(p)
  \/ TvSetVisible
  \/ TvReposition

SpecTvInit == TvInit /\ CtlIdle /\ HitIdle /\ TpIdle

SpecTv == SpecTvInit /\ [][TvNext]_vars

tv_shown == tv_prev.calls > 0 /\ tv_in.position # Null /\ tv_in.visible

\* C5: while shown, attachment horizontal gives side right when the anchor's x
\* is less than the target box's horizontal centre and left otherwise (the
\* centre included); vertical gives below when the anchor's y is less than the
\* vertical centre and above otherwise; an explicit side is used as it is.
\* Box [0,100]x[0,100]: horizontal, x = 20 -> right, x = 80 -> left;
\* vertical, y = 90 -> above.
C5_Side ==
  /\ tv_shown =>
       LET p == anchor_point2(tv_in.position, tv_in.bbox)
           b == tv_in.bbox
       IN  /\ tv_in.attachment = "horizontal" /\ p[1] < b.left + b.right => tv_side = Some("right")
           /\ tv_in.attachment = "horizontal" /\ p[1] >= b.left + b.right => tv_side = Some("left")
           /\ tv_in.attachment = "vertical" /\ p[2] < b.top + b.bottom => tv_side = Some("below")
           /\ tv_in.attachment = "vertical" /\ p[2] >= b.top + b.bottom => tv_side = Some("above")
           /\ tv_in.attachment \in Sides => tv_side = Some(tv_in.attachment)
           /\ tv_el.display
           /\ tv_el.classes \cap Sides = {side_class(tv_side[1])}
  /\ LET box == [left |-> 0, top |-> 0, right |-> 100, bottom |-> 100]
     IN  /\ side_of("horizontal", 2 * 20, 2 * 50, box) = "right"
         /\ side_of("horizontal", 2 * 80, 2 * 50, box) = "left"
         /\ side_of("horizontal", 2 * 50, 2 * 50, box) = "left"
         /\ side_of("vertical", 2 * 50, 2 * 90, box) = "above"
         /\ side_of("below", 2 * 50, 2 * 90, box) = "below"

\* C5's case: a tooltip shown by horizontal attachment with its anchor exactly
\* at the horizontal centre of the box
C5_Witness ==
  /\ tv_shown /\ tv_in.attachment = "horizontal"
  /\ Len(tv_in.position) = 2
  /\ 2 * tv_in.position[1] = tv_in.bbox.left + tv_in.bbox.right
  /\ tv_side = Some("left")

\* C6: _reposition run twice in a row with position, visibility, attachment,
\* bounding box and element sizes unchanged leaves display, the side classes
\* and the top/left/right styles after the second run as after the first.
C6_Idempotent ==
  tv_prev.calls = 2 => tv_el = tv_prev.el

\* C6's case: a second run while shown, after an earlier position left another
\* side's class behind for the first run to remove
C6_Witness ==
  /\ tv_prev.calls = 2 /\ tv_shown
  /\ tv_in.attachment = "vertical"
  /\ tv_el.classes = {"below"} /\ tv_el.right = Null /\ tv_el.left # Null

\* ----------------------------------------------------------------------
\* the anchor a point-like glyph resolves for subset index i: the configured
\* one, else center, else none
C17_resolves(in, anchor, i) ==
  \/ in.g.anchors_ok = "all"
  \/ in.g.anchors_ok = "center" /\ anchor = "center"
  \/ in.g.anchors_ok = "not_first" /\ i # 0

C17_anchor(in, i) ==
  IF C17_resolves(in, in.cfg.anchor, i) THEN Some(in.cfg.anchor)
  ELSE IF C17_resolves(in, "center", i) THEN Some("center")
  ELSE Null

C17_indices(in) == [k \in 1..Len(in.full.indices) |-> in.full.indices[k] - in.off]

C17_kept(in) ==
  IF in.cfg.point_policy = "snap_to_data"
    THEN SelectSeq(C17_indices(in), LAMBDA i: C17_anchor(in, i) # Null)
    ELSE C17_indices(in)

\* C17: for a point-like glyph no error is raised and the hits are those of
\* the plain indices in order; under snap_to_data index i is anchored at the
\* glyph's anchor point for the configured anchor, at the one for center when
\* that does not resolve, and gives no hit when neither resolves (the other
\* indices still give theirs); under another point policy the anchor is the
\* raw pointer position.
C17_Snap ==
  (h_out.done /\ h_in.g.kind = "scatter") =>
    /\ ~h_out.err
    /\ Len(h_out.hits) = Len(C17_kept(h_in))
    /\ \A k \in 1..Len(h_out.hits) :
         LET i == C17_kept(h_in)[k]
             hit == h_out.hits[k]
         IN  /\ hit.index = Some(i + h_in.off)
             /\ IF h_in.cfg.point_policy = "snap_to_data"
                  THEN /\ hit.tt_sx = h_in.g.sx[i + 1] + anchor_offset(C17_anchor(h_in, i)[1])[1]
                       /\ hit.tt_sy = h_in.g.sy[i + 1] + anchor_offset(C17_anchor(h_in, i)[1])[2]
                  ELSE hit.tt_sx = h_in.sx /\ hit.tt_sy = h_in.sy

\* C17's case: the configured anchor does not resolve and center does
C17_Witness ==
  /\ h_out.done /\ h_in.g.kind = "scatter" /\ h_in.cfg.point_policy = "snap_to_data"
  /\ h_in.g.anchors_ok = "center" /\ h_in.cfg.anchor = "top_left"
  /\ Len(h_out.hits) = 2

\* C19: after every reposition while shown the element carries exactly one of
\* the four side classes, the one of the chosen side; sides right, above and
\* below set the left style and leave right empty, side left sets right and
\* leaves left empty; top is always set.
C19_OneSide ==
  tv_shown =>
    /\ Cardinality(tv_el.classes \cap Sides) = 1
    /\ tv_el.classes \cap Sides = {side_class(tv_side[1])}
    /\ tv_el.top # Null
    /\ tv_side[1] \in {"right", "above", "below"} => (tv_el.left # Null /\ tv_el.right = Null)
    /\ tv_side[1] = "left" => (tv_el.right # Null /\ tv_el.left = Null)

\* C19's case: shown on side left by horizontal attachment, which a position
\* left of the centre had put on side right before or could have
C19_Witness ==
  /\ tv_shown /\ tv_in.attachment = "horizontal"
  /\ tv_side = Some("left")
  /\ tv_el.classes = {"right"} /\ tv_el.right # Null /\ tv_el.left = Null

C20_Display == tv_el.display <=> (tv_in.position # Null /\ tv_in.visible)

C20_Hidden ==
  (tv_in'.position = Null \/ ~tv_in'.visible) =>
    /\ ~tv_el'.display
    /\ tv_el'.classes = tv_el.classes
    /\ tv_el'.top = tv_el.top /\ tv_el'.left = tv_el.left /\ tv_el'.right = tv_el.right

\* C20: the element is displayed exactly when position is non-null and
\* visible is true (every change of either, and every render, runs
\* _reposition); a reposition with a null position or visible false hides the
\* element and leaves its side classes and top/left/right styles as they were.
C20_Shown == [](C20_Display) /\ [][C20_Hidden]_vars

\* C20's case: hidden by visible = false with a position still set, the class
\* and the styles of the last showing kept
C20_Witness ==
  /\ ~tv_el.display /\ ~tv_in.visible /\ tv_in.position # Null
  /\ tv_el.classes # {} /\ tv_el.top # Null

\* ======================================================================
\* HoverToolView._render_template: the rows of a label/value specification
\* filled for one hit.  A value expression is kept as what the two regular
\* expressions of lines 505-506 match in it: swatch is null or <<colname>>,
\* color is null or <<[opts, col]>>.  A value text is a tag: "empty" (the
\* template's untouched ""), "content" (substituted placeholders), "unknown"
\* with col (`${colname} unknown`), "null" ("(null)"), "css" or "hex" with the
\* colour.
\* ======================================================================
Columns == ("fill" :> <<Some("red"), Null>>)

\* ColumnarDataSource.get_column: null when there is no such column
get_column(ds, colname) == IF colname \in DOMAIN ds THEN Some(ds[colname]) ELSE Null

\* isNumber(i) ? column[i] : null, lines 531 and 549 (column[i] is undefined
\* past the end of the column)
color_at(column, i) ==
  IF i # Null /\ (i[1] + 1) \in DOMAIN column THEN column[i[1] + 1] ELSE Null

empty_row == [text |-> [kind |-> "empty"], swatch_shown |-> FALSE]

\* lines 524-538
swatch_step(row, value, ds, i) ==
  IF value.swatch = Null THEN row
  ELSE LET column == get_column(ds, value.swatch[1])
       IN  IF column = Null
             THEN [row EXCEPT !.text = [kind |-> "unknown", col |-> value.swatch[1]]]
             ELSE IF color_at(column[1], i) # Null
                    THEN [row EXCEPT !.swatch_shown = TRUE]
                    ELSE row

\* lines 540-559
color_step(row, value, ds, i) ==
  IF value.color = Null THEN row
  ELSE LET column == get_column(ds, value.color[1].col)
       IN  IF column = Null
             THEN [row EXCEPT !.text = [kind |-> "unknown", col |-> value.color[1].col]]
             ELSE IF color_at(column[1], i) = Null
                    THEN [row EXCEPT !.text = [kind |-> "null"]]
                    ELSE [row EXCEPT
                            !.text = [kind |-> IF "hex" \in value.color[1].opts THEN "hex" ELSE "css",
                                      color |-> color_at(column[1], i)[1]],
                            !.swatch_shown = @ \/ "swatch" \in value.color[1].opts]

\* lines 508-561: one row
render_row(value, ds, i) ==
  IF value.swatch = Null /\ value.color = Null
    THEN [empty_row EXCEPT !.text = [kind |-> "content"]]
    ELSE color_step(swatch_step(empty_row, value, ds, i), value, ds, i)

\* lines 497-564
_render_template(rows, ds, i) == SeqMap(LAMBDA value: render_row(value, ds, i), rows)

plain_value == [swatch |-> Null, color |-> Null]
swatch_value(col) == [swatch |-> Some(col), color |-> Null]
color_value(opts, col) == [swatch |-> Null, color |-> Some([opts |-> opts, col |-> col])]

TpValues ==
  {plain_value} \cup {swatch_value(c) : c \in {"fill", "nofill"}}
  \cup {color_value(o, c) : o \in {{}, {"hex"}, {"swatch"}}, c \in {"fill", "nofill"}}
  \cup {[swatch |-> Some("nofill"), color |-> Some([opts |-> {}, col |-> "fill"])]}

TpInit ==
  /\ tp_in \in [rows : {<<v>> : v \in TpValues} \cup {<<v, w>> : v \in TpValues, w \in TpValues},
                index : {Null, Some(0), Some(1), Some(2)}]
  /\ tp_out = [done |-> FALSE, rows |-> <<>>]

\* a hit rendered with a label/value specification
TpRender ==
  /\ ~tp_out.done
  /\ tp_out' = [done |-> TRUE, rows |-> _render_template(tp_in.rows, Columns, tp_in.index)]
  /\ UNCHANGED <<tp_in, ctl_vars, hit_vars, tv_vars>>

TpNext == TpRender

SpecTpInit == TpInit /\ CtlIdle /\ HitIdle /\ TvIdle

SpecTp == SpecTpInit /\ [][TpNext]_vars

\* a row whose value expression is one directive naming column col
tp_directive(value, col) ==
  \/ value.swatch = Some(col) /\ value.color = Null
  \/ value.swatch = Null /\ value.color # Null /\ value.color[1].col = col

\* C7: in the label/value renderer, every row whose value expression is a
\* color or swatch directive naming a column gets a non-empty placeholder text
\* when the column is absent (one holding the column name and "unknown") or the
\* canonical index is not a definite integer; nothing is raised and the other
\* rows are rendered.
C7_Placeholder ==
  tp_out.done =>
    /\ Len(tp_out.rows) = Len(tp_in.rows)
    /\ \A j \in 1..Len(tp_in.rows) : \A col \in {"fill", "nofill"} :
         tp_directive(tp_in.rows[j], col) =>
           /\ col \notin DOMAIN Columns => tp_out.rows[j].text = [kind |-> "unknown", col |-> col]
           /\ tp_in.index = Null => tp_out.rows[j].text.kind \in {"unknown", "null"}

\* ======================================================================
\* HoverToolView, the controller: a plot with the glyph renderers A (a
\* polyline) and B (a scatter) and the graph renderer G, whose node
\* renderer GN is a scatter and whose edge renderer GE a multi-segment
\* glyph; every glyph renderer has a data source of its own.
\* ======================================================================
DataRenderers == {"A", "B", "G"}
GlyphRenderers == {"A", "B", "GN", "GE"}
\* plot_model.data_renderers, in their order
RendererOrder == <<"A", "B", "G">>
\* the values model.renderers takes ("auto" is all of them)
RendererSets == {{"A", "B"}, {"B"}, {"B", "G"}, {"G"}}
Range(f) == {f[k] : k \in DOMAIN f}

\* r instanceof GlyphRenderer yields r; a GraphRenderer its node and edge renderers
glyph_renderers_of(r) == IF r = "G" THEN <<"GN", "GE">> ELSE <<r>>
owner(gr) == IF gr \in {"GN", "GE"} THEN "G" ELSE gr
data_source(gr) ==
  CASE gr = "A" -> "D1" [] gr = "B" -> "D2" [] gr = "GN" -> "D3" [] gr = "GE" -> "D4"
glyph_of(gr) ==
  CASE gr = "A" -> [kind |-> "line", sx |-> <<0, 1>>, sy |-> <<1, 1>>, anchors_ok |-> "all"]
    [] gr = "B" -> [kind |-> "scatter", sx |-> <<1>>, sy |-> <<0>>, anchors_ok |-> "all"]
    [] gr = "GN" -> [kind |-> "scatter", sx |-> <<0>>, sy |-> <<0>>, anchors_ok |-> "center"]
    [] gr = "GE" -> [kind |-> "multi_line", sx |-> <<0, 1>>, sy |-> <<0, 1>>, anchors_ok |-> "all"]

\* what the hit test of the renderer's glyph finds when the query meets it
hit_selection(gr) ==
  CASE gr = "A" -> sel_with(<<>>, <<0>>, <<>>, <<>>, FALSE)
    [] gr = "GE" -> sel_with(<<0>>, <<>>, (0 :> <<0>>), <<>>, FALSE)
    [] OTHER -> sel_with(<<0>>, <<>>, <<>>, <<>>, FALSE)

\* the hit tests of a query that meets the glyphs of the renderers in met
hit_tests(met) == [gr \in GlyphRenderers |-> IF gr \in met THEN hit_selection(gr) ELSE empty_selection]

\* the glyphs a query inside the frame may meet
Scenes == {{}, {"A", "GE"}, {"B", "GN"}, {"B", "GE"}}

\* the values of model.tooltips: null, a list of rows, a DOMElement template
TooltipSpecs == {[kind |-> "null", id |-> 0], [kind |-> "list", id |-> 1], [kind |-> "template", id |-> 1]}

\* lines 174-178
computed_renderers(rs) == SelectSeq(RendererOrder, LAMBDA r: r \in rs)

\* lines 152-161
glyph_renderers(rs) == Flatten(SeqMap(glyph_renderers_of, computed_renderers(rs)))

data_sources(grs) == {data_source(gr) : gr \in Range(grs)}

\* a slip: one Tooltip made before the loop and set for every renderer
mut_new_ttmodels(rs, gen) ==
  [gr \in Range(glyph_renderers(rs)) |-> [gen |-> gen, k |-> 1]]

\* lines 131-145: a new Tooltip per computed renderer, the k-th of rebuild gen,
\* set for the renderer or for both renderers of a graph renderer
new_ttmodels(rs, gen) ==
  LET crs == computed_renderers(rs)
  IN  [gr \in Range(glyph_renderers(rs)) |->
         [gen |-> gen, k |-> CHOOSE k \in 1..Len(crs) : crs[k] = owner(gr)]]

\* lines 133-137; attachment and show_arrow are the tool's (lines 634, 636)
new_tooltip == [position |-> Null, content |-> <<>>, attachment |-> "horizontal", show_arrow |-> TRUE]

\* lines 123-147: _update_ttmodels up to its await
start_update_ttmodels(rs, tt, init) ==
  /\ next_id' = next_id + 1
  /\ IF tt.kind = "null"
       THEN /\ ttmodels' = <<>>
            /\ tts' = <<>>
            /\ pending' = pending
       ELSE /\ ttmodels' = new_ttmodels(rs, next_id)
            /\ tts' = [t \in Range(new_ttmodels(rs, next_id)) |-> new_tooltip]
            /\ pending' = pending \cup {[id |-> next_id, rs |-> rs, init |-> init]}

\* Signal.disconnect_receiver(this, slot, except)
disconnect_receiver(ls, except) == ls \cap except

\* a slip: the listeners of the old renderers are kept
mut_rewired(ls, grs) == ls \cup data_sources(grs)

\* lines 163-171: the data sources connected to _update after a rebuild
rewired(ls, grs) == disconnect_receiver(ls, data_sources(grs)) \cup data_sources(grs)

\* plot_view.frame.bbox.contains(sx, sy)
frame_bbox == [left |-> 1, right |-> 1, top |-> 1, bottom |-> 1]
frame_contains(sx, sy) ==
  /\ frame_bbox.left <= sx /\ sx <= frame_bbox.right
  /\ frame_bbox.top <= sy /\ sy <= frame_bbox.bottom

\* HoverTool's defaults, lines 632 and 635
ctl_cfg == [line_policy |-> line_policy, point_policy |-> "snap_to_data", anchor |-> "center"]

\* lines 566-588: the node rendered for one hit by the compiled template or
\* template view by (null for a function)
rendered(hit, by) == [index |-> hit.index, seg |-> hit.segment_index, by |-> by]

\* line 583: the compiled template, built from the specification when there
\* is none
template_for(el) == IF el # Null THEN el ELSE Some(tooltips)

\* lines 566-588, with el the value of _template_el: null or the node; a
\* function specification (id 0) may return null
_render_tooltips(el, hit) ==
  IF tooltips.kind = "function"
    THEN IF tooltips.id = 0 THEN Null ELSE Some(rendered(hit, Null))
  ELSE IF tooltips.kind = "template"
    THEN Some(rendered(hit, template_view))
  ELSE Some(rendered(hit, template_for(el)))

\* line 578: _template_view is read while it is undefined
render_throws == tooltips.kind = "template" /\ template_view = Null

\* Tooltip.clear, lines 855-857: the change of position is signalled when the
\* position was not null already
clear_tooltip(st, t) ==
  [st EXCEPT !.tts[t].position = Null,
             !.notified = IF st.tts[t].position # Null THEN @ \cup {t} ELSE @]

\* a slip: the position is set with the equality check left on
mut_show_hits(st, t, hits) ==
  IF hits = <<>>
    THEN clear_tooltip(st, t)
    ELSE [st EXCEPT !.tts[t].content = Flatten(SeqMap(LAMBDA h: _render_tooltips(st.template_el, h), hits)),
                    !.tts[t].position = <<hits[Len(hits)].tt_sx, hits[Len(hits)].tt_sy>>,
                    !.notified = IF st.tts[t].position # <<hits[Len(hits)].tt_sx, hits[Len(hits)].tt_sy>>
                                   THEN @ \cup {t} ELSE @,
                    !.template_el = IF tooltips.kind = "list" THEN template_for(@) ELSE @]

\* lines 431-443: the content is the non-null nodes, the position the last
\* hit's, set with check_eq false
show_hits(st, t, hits) ==
  IF hits = <<>>
    THEN clear_tooltip(st, t)
    ELSE [st EXCEPT !.tts[t].content = Flatten(SeqMap(LAMBDA h: _render_tooltips(st.template_el, h), hits)),
                    !.tts[t].position = <<hits[Len(hits)].tt_sx, hits[Len(hits)].tt_sy>>,
                    !.notified = @ \cup {t},
                    !.template_el = IF tooltips.kind = "list" THEN template_for(@) ELSE @]

\* lines 255-443: the outcome res of the resolution of the hits, thrown or
\* merged into the Tooltip
show_resolved(st, gr, res) ==
  IF res.err \/ (res.hits # <<>> /\ render_throws)
    THEN [st EXCEPT !.raised = TRUE]
    ELSE show_hits(st, ttmodels[gr], res.hits)

\* lines 239-444: _update for a renderer that has a Tooltip
update_tooltip(st, gr, full, geometry) ==
  IF selection_is_empty(full) /\ ~full.view
    THEN clear_tooltip(st, ttmodels[gr])
  ELSE IF owner(gr) \notin rviews THEN st
  ELSE show_resolved(st, gr, resolve_hits(glyph_of(gr), full, geometry, ctl_cfg, 0))

\* a slip: a muted renderer is ignored whatever the policy
mut_is_ignored(gr) == gr \in muted

\* line 232
is_ignored(gr) == muted_policy = "ignore" /\ gr \in muted

\* a slip: the handler runs whether or not the tool is active
mut_update_inactive(st, gr, full, geometry) ==
  IF is_ignored(gr) THEN st
  ELSE IF gr \notin DOMAIN ttmodels THEN st
  ELSE update_tooltip(st, gr, full, geometry)

\* a slip: the Tooltip is used without the test for its absence
mut_update(st, gr, full, geometry) ==
  IF ~active THEN st
  ELSE IF is_ignored(gr) THEN st
  ELSE IF gr \notin DOMAIN ttmodels THEN [st EXCEPT !.raised = TRUE]
  ELSE update_tooltip(st, gr, full, geometry)

\* lines 225-444: the handler of a data source's inspect signal, on the state
\* st = [tts, inspected, raised, template_el, ...] of the handler in progress
_update(st, gr, full, geometry) ==
  IF ~active THEN st
  ELSE IF is_ignored(gr) THEN st
  ELSE IF gr \notin DOMAIN ttmodels THEN st
  ELSE update_tooltip(st, gr, full, geometry)

\* SelectionManager.inspect of one data renderer: the hit test of each of its
\* glyph renderers, kept as its data source's inspected selection, and the
\* data source's inspect signal to the connected _update
RECURSIVE sm_inspect(_, _, _, _)
sm_inspect(st, grs, sels, geometry) ==
  IF grs = <<>> \/ st.raised THEN st
  ELSE sm_inspect(IF data_source(Head(grs)) \in listeners
                    THEN _update([st EXCEPT !.sel[Head(grs)] = Some(sels[Head(grs)])],
                                 Head(grs), sels[Head(grs)], geometry)
                    ELSE [st EXCEPT !.sel[Head(grs)] = Some(sels[Head(grs)])],
                  Tail(grs), sels, geometry)

\* lines 215-220
RECURSIVE inspect_loop(_, _, _, _)
inspect_loop(st, crs, sels, geometry) ==
  IF crs = <<>> \/ st.raised THEN st
  ELSE inspect_loop(IF Head(crs) \in rviews
                      THEN sm_inspect([st EXCEPT !.inspected[Head(crs)] = Some(geometry)],
                                      glyph_renderers_of(Head(crs)), sels, geometry)
                      ELSE st,
                    Tail(crs), sels, geometry)

\* r instanceof GlyphRenderer
is_glyph_renderer(r) == glyph_renderers_of(r) = <<r>>

\* lines 459-469: one invocation of the callback
callback_args(st, r, geometry) ==
  [geometry |-> [x |-> x_invert(geometry.sx), y |-> y_invert(geometry.sy), g |-> geometry],
   renderer |-> r,
   index |-> st.sel[r]]

\* lines 446-471; st.raised: a handler threw and line 222 is not reached
_emit_callback(st, geometry) ==
  IF ~callback \/ st.raised THEN st
  ELSE [st EXCEPT !.calls = @ \o SeqMap(LAMBDA r: callback_args(st, r, geometry),
                                        SelectSeq(computed_renderers(renderers),
                                                  LAMBDA r: is_glyph_renderer(r) /\ r \in rviews))]

\* a slip: the callback is emitted before the renderers are inspected
mut_inspect(st, sx, sy, sels) ==
  inspect_loop(_emit_callback(st, build_geometry(mode, sx, sy)),
               computed_renderers(renderers), sels, build_geometry(mode, sx, sy))

\* lines 206-223; an error thrown by a handler of the inspect signal leaves
\* _inspect before line 222
_inspect(st, sx, sy, sels) ==
  _emit_callback(inspect_loop(st, computed_renderers(renderers), sels, build_geometry(mode, sx, sy)),
                 build_geometry(mode, sx, sy))

\* a query outside every glyph selects nothing
no_hits == hit_tests({})

\* a slip: clearing resets the Tooltips instead of hiding them
mut_clear_all(st) ==
  IF st.raised THEN st ELSE
  [st EXCEPT !.tts = [t \in DOMAIN @ |-> new_tooltip],
             !.notified = @ \cup {t \in DOMAIN st.tts : st.tts[t].position # Null}]

\* lines 187-189: Tooltip.clear for every Tooltip of the mapping; st.raised:
\* the inspection of line 185 threw and the loop is not reached
clear_all(st) ==
  IF st.raised THEN st ELSE
  [st EXCEPT !.tts = [t \in DOMAIN @ |-> [@[t] EXCEPT !.position = Null]],
             !.notified = @ \cup {t \in DOMAIN st.tts : st.tts[t].position # Null}]

\* a slip: the tooltips are hidden but the inspection is not run
mut_clear(st) == clear_all(st)

\* lines 184-190
_clear(st) == clear_all(_inspect(st, Infinity, Infinity, no_hits))

not_inspected == [r \in DataRenderers |-> Null]

handler_state ==
  [tts |-> tts, inspected |-> not_inspected, raised |-> FALSE, template_el |-> template_el,
   calls |-> <<>>, notified |-> {}, sel |-> [gr \in GlyphRenderers |-> Null]]

handler_done(st) ==
  /\ tts' = st.tts
  /\ inspected' = st.inspected
  /\ raised' = st.raised
  /\ template_el' = st.template_el
  /\ calls' = st.calls
  /\ notified' = st.notified

CtlInit ==
  /\ pc = "start"
  /\ active = TRUE
  /\ mode = "mouse"
  /\ line_policy \in {"nearest", "none"}
  /\ tooltips \in {[kind |-> "list", id |-> 1], [kind |-> "template", id |-> 1]}
  /\ template_view = Null
  /\ template_el = Null
  /\ renderers = {"A", "B"}
  /\ rviews = DataRenderers \ {"A"}
  /\ ttmodels = <<>>
  /\ tts = <<>>
  /\ listeners = {}
  /\ pending = {}
  /\ next_id = 0
  /\ inspected = not_inspected
  /\ raised = FALSE
  /\ last = "other"
  /\ muted_policy = "show"
  /\ muted = {}
  /\ callback = FALSE
  /\ calls = <<>>
  /\ notified = {}

\* lines 97-99: lazy_initialize up to the await of its _update_ttmodels
LazyInitialize ==
  /\ pc = "start"
  /\ start_update_ttmodels(renderers, tooltips, TRUE)
  /\ pc' = IF tooltips.kind = "null" THEN "done" ELSE "await_ttmodels"
  /\ raised' = FALSE
  /\ inspected' = not_inspected /\ calls' = <<>> /\ notified' = {}
  /\ last' = "other"
  /\ UNCHANGED <<active, mode, line_policy, tooltips, template_view, template_el, renderers, rviews, listeners>>
  /\ UNCHANGED <<cfg_vars, hit_vars, tv_vars, tp_vars>>

\* lines 147-172: a suspended _update_ttmodels resumes and rewires the
\* listeners; the one lazy_initialize awaits lets it go on to lines 101-103
ResumeUpdateTtmodels(p) ==
  /\ p \in pending
  /\ pending' = pending \ {p}
  /\ listeners' = rewired(listeners, glyph_renderers(p.rs))
  /\ pc' = IF p.init THEN (IF tooltips.kind = "template" THEN "await_template" ELSE "done") ELSE pc
  /\ raised' = FALSE
  /\ inspected' = not_inspected /\ calls' = <<>> /\ notified' = {}
  /\ last' = IF p.id = next_id - 1 THEN "resume_latest" ELSE "other"
  /\ UNCHANGED <<active, mode, line_policy, tooltips, template_view, template_el, renderers, rviews, ttmodels, tts, next_id>>
  /\ UNCHANGED <<cfg_vars, hit_vars, tv_vars, tp_vars>>

\* lines 103-105: the template view of lazy_initialize is built
TemplateBuilt ==
  /\ pc = "await_template"
  /\ pc' = "done"
  /\ template_view' = Some(tooltips)
  /\ raised' = FALSE
  /\ inspected' = not_inspected /\ calls' = <<>> /\ notified' = {}
  /\ last' = "other"
  /\ UNCHANGED <<active, mode, line_policy, tooltips, template_el, renderers, rviews, ttmodels, tts, listeners, pending, next_id>>
  /\ UNCHANGED <<cfg_vars, hit_vars, tv_vars, tp_vars>>

\* model.renderers (or the plot's renderers) changes: the handler of line 120
SetRenderers(rs) ==
  /\ pc = "done"
  /\ next_id < MaxRebuilds
  /\ rs # renderers
  /\ renderers' = rs
  /\ start_update_ttmodels(rs, tooltips, FALSE)
  /\ raised' = FALSE
  /\ inspected' = not_inspected /\ calls' = <<>> /\ notified' = {}
  /\ last' = "other"
  /\ UNCHANGED <<pc, active, mode, line_policy, tooltips, template_view, template_el, rviews, listeners>>
  /\ UNCHANGED <<cfg_vars, hit_vars, tv_vars, tp_vars>>

\* a slip: the compiled template outlives the specification
mut_delete_template_el == template_el' = template_el

\* line 119
delete_template_el == template_el' = Null

\* model.tooltips changes: the handlers of lines 119 and 120
SetTooltips(tt) ==
  /\ pc = "done"
  /\ next_id < MaxRebuilds
  /\ tt # tooltips
  /\ tooltips' = tt
  /\ delete_template_el
  /\ start_update_ttmodels(renderers, tt, FALSE)
  /\ raised' = FALSE
  /\ inspected' = not_inspected /\ calls' = <<>> /\ notified' = {}
  /\ last' = "other"
  /\ UNCHANGED <<pc, active, mode, line_policy, template_view, renderers, rviews, listeners>>
  /\ UNCHANGED <<cfg_vars, hit_vars, tv_vars, tp_vars>>

\* lines 192-200, a position inside the frame
MoveInside(sx, sy, sels) ==
  /\ frame_contains(sx, sy)
  /\ handler_done(IF ~active THEN handler_state ELSE _inspect(handler_state, sx, sy, sels))
  /\ last' = "other"
  /\ UNCHANGED <<pc, active, mode, line_policy, tooltips, template_view, renderers, rviews, ttmodels, listeners, pending, next_id>>
  /\ UNCHANGED <<cfg_vars, hit_vars, tv_vars, tp_vars>>

\* lines 192-200, a position outside the frame
MoveOutside(sx, sy) ==
  /\ ~frame_contains(sx, sy)
  /\ handler_done(IF ~active THEN handler_state ELSE _clear(handler_state))
  /\ last' = "move_out"
  /\ UNCHANGED <<pc, active, mode, line_policy, tooltips, template_view, renderers, rviews, ttmodels, listeners, pending, next_id>>
  /\ UNCHANGED <<cfg_vars, hit_vars, tv_vars, tp_vars>>

\* lines 202-204
MoveExit ==
  /\ handler_done(_clear(handler_state))
  /\ last' = "move_exit"
  /\ UNCHANGED <<pc, active, mode, line_policy, tooltips, template_view, renderers, rviews, ttmodels, listeners, pending, next_id>>
  /\ UNCHANGED <<cfg_vars, hit_vars, tv_vars, tp_vars>>

\* which return of _update an external inspect signal takes
update_tag(gr) ==
  IF gr \notin DOMAIN ttmodels THEN "update_no_tooltip"
  ELSE IF active /\ is_ignored(gr) THEN "update_ignored"
  ELSE "other"

\* the inspect signal of gr's data source emitted by another party (another
\* tool or plot inspecting the same data source), delivered to _update
ExternalInspect(gr, sel, sx, sy) ==
  /\ data_source(gr) \in listeners
  /\ handler_done(_update(handler_state, gr, sel, build_geometry(mode, sx, sy)))
  /\ last' = update_tag(gr)
  /\ UNCHANGED <<pc, active, mode, line_policy, tooltips, template_view, renderers, rviews, ttmodels, listeners, pending, next_id>>
  /\ UNCHANGED <<cfg_vars, hit_vars, tv_vars, tp_vars>>

\* model.active changes
ToggleActive ==
  /\ active' = ~active
  /\ raised' = FALSE
  /\ inspected' = not_inspected /\ calls' = <<>> /\ notified' = {}
  /\ last' = "other"
  /\ UNCHANGED <<pc, mode, line_policy, tooltips, template_view, template_el, renderers, rviews, ttmodels, tts, listeners, pending, next_id>>
  /\ UNCHANGED <<cfg_vars, hit_vars, tv_vars, tp_vars>>

\* the plot builds the view of a data renderer
BuildRendererView(r) ==
  /\ r \notin rviews
  /\ rviews' = rviews \cup {r}
  /\ raised' = FALSE
  /\ inspected' = not_inspected /\ calls' = <<>> /\ notified' = {}
  /\ last' = "other"
  /\ UNCHANGED <<pc, active, mode, line_policy, tooltips, template_view, template_el, renderers, ttmodels, tts, listeners, pending, next_id>>
  /\ UNCHANGED <<cfg_vars, hit_vars, tv_vars, tp_vars>>

\* pointer positions: a corner outside the frame and a point of the frame
CtlPositions == {<<0, 1>>, <<1, 1>>}

Next ==
  \/ LazyInitialize
  \/ \E p \in pending : ResumeUpdateTtmodels(p)
  \/ TemplateBuilt
  \/ \E rs \in RendererSets : SetRenderers(rs)
  \/ \E tt \in TooltipSpecs : SetTooltips(tt)
  \/ \E pos \in CtlPositions : \E met \in Scenes : MoveInside(pos[1], pos[2], hit_tests(met))
  \/ \E pos \in CtlPositions : MoveOutside(pos[1], pos[2])
  \/ MoveExit
  \/ \E gr \in GlyphRenderers : \E sel \in {empty_selection, hit_selection(gr)} : \E pos \in CtlPositions :
       frame_contains(pos[1], pos[2]) /\ ExternalInspect(gr, sel, pos[1], pos[2])
  \/ ToggleActive
  \/ \E r \in DataRenderers : BuildRendererView(r)

SpecInit == CtlInit /\ HitIdle /\ TvIdle /\ TpIdle

Spec == SpecInit /\ [][Next]_vars

\* ======================================================================
\* The handlers of an initialized tool, over the tool's configurations:
\* muted policy, callback, tooltip specification, line policy, renderers and
\* the renderer views built so far. No rebuild is in flight.
\* ======================================================================
\* the values of model.tooltips that make Tooltips: a list of rows, a
\* DOMElement template, a function returning null (0) or a node (1)
ShownSpecs ==
  {[kind |-> "list", id |-> 1], [kind |-> "template", id |-> 1],
   [kind |-> "function", id |-> 0], [kind |-> "function", id |-> 1]}

\* the selections an inspect signal may carry for gr: nothing, the glyph's
\* hit, nothing of a data source whose view is marked
Selections(gr) == {empty_selection, hit_selection(gr), sel_with(<<>>, <<>>, <<>>, <<>>, TRUE)}

InspectInit ==
  /\ pc = "done"
  /\ active = TRUE
  /\ mode = "mouse"
  /\ line_policy \in {"nearest", "none"}
  /\ tooltips \in ShownSpecs
  /\ template_view \in IF tooltips.kind = "template" THEN {Null, Some(tooltips)} ELSE {Null}
  /\ template_el = Null
  /\ renderers \in {{"A", "B"}, {"B", "G"}}
  /\ rviews \in {DataRenderers, DataRenderers \ {"B"}}
  /\ ttmodels = new_ttmodels(renderers, 0)
  /\ tts = [t \in Range(new_ttmodels(renderers, 0)) |-> new_tooltip]
  /\ listeners = data_sources(glyph_renderers(renderers))
  /\ pending = {}
  /\ next_id = 1
  /\ inspected = not_inspected
  /\ raised = FALSE
  /\ last = "other"
  /\ muted_policy \in {"show", "ignore"}
  /\ muted = {}
  /\ callback \in BOOLEAN
  /\ calls = <<>>
  /\ notified = {}

\* renderer.muted changes (a click on the legend)
SetMuted(gr) ==
  /\ muted' = (muted \ {gr}) \cup ({gr} \ muted)
  /\ raised' = FALSE
  /\ inspected' = not_inspected /\ calls' = <<>> /\ notified' = {}
  /\ last' = "other"
  /\ UNCHANGED <<pc, active, mode, line_policy, tooltips, template_view, template_el, renderers, rviews, ttmodels, tts, listeners, pending, next_id>>
  /\ UNCHANGED <<muted_policy, callback, hit_vars, tv_vars, tp_vars>>

InspectNext ==
  \/ \E pos \in CtlPositions : \E met \in Scenes : MoveInside(pos[1], pos[2], hit_tests(met))
  \/ \E pos \in CtlPositions : MoveOutside(pos[1], pos[2])
  \/ MoveExit
  \/ \E gr \in GlyphRenderers : \E sel \in Selections(gr) : \E pos \in CtlPositions :
       frame_contains(pos[1], pos[2]) /\ ExternalInspect(gr, sel, pos[1], pos[2])
  \/ ToggleActive
  \/ SetMuted("B")

SpecInspectInit == InspectInit /\ HitIdle /\ TvIdle /\ TpIdle

SpecInspect == SpecInspectInit /\ [][InspectNext]_vars

\* ----------------------------------------------------------------------
\* Properties of the controller
\* ----------------------------------------------------------------------
sentinel == build_geometry(mode, Infinity, Infinity)
all_cleared == \A t \in DOMAIN tts : tts[t].position = Null
mapped == Range(glyph_renderers(renderers))
rebuilt == DOMAIN ttmodels = mapped /\ listeners = data_sources(glyph_renderers(renderers))
in_flight == pending # {} \/ pc # "done"

\* C1 (as amended): after a pointer-move outside the frame handled while the
\* tool is active, and after every pointer-exit, every computed renderer that
\* has a renderer view has been inspected with the sentinel geometry
\* (Infinity, Infinity) and every Tooltip of the mapping has position null.
C1_Clear ==
  (last = "move_exit" \/ (last = "move_out" /\ active)) =>
    /\ \A r \in renderers \cap rviews : inspected[r] = Some(sentinel)
    /\ all_cleared

C1_Witness ==
  /\ last = "move_out" /\ active
  /\ \A r \in renderers : inspected[r] = Some(sentinel)
  /\ \E t \in DOMAIN tts : tts[t].content # <<>>

\* C1 as stated: after every pointer-move outside the frame and every
\* pointer-exit every renderer has been inspected with the sentinel geometry
\* and every Tooltip has position null.
C1_Original ==
  last \in {"move_exit", "move_out"} =>
    /\ \A r \in renderers : inspected[r] = Some(sentinel)
    /\ all_cleared

C2_After ==
  (last = "resume_latest" /\ pending = {} /\ tooltips.kind # "null") =>
    /\ rebuilt
    /\ renderers = {"B"} => (DOMAIN ttmodels = {"B"} /\ data_source("A") \notin listeners)

C2_Stays ==
  (pending = {} /\ pending' = {} /\ tooltips' = tooltips /\ renderers' = renderers /\ rebuilt) => rebuilt'

\* C2: when the rebuild triggered by the latest change of the renderer set
\* completes with no other rebuild pending and a non-null tooltip
\* specification, the mapping holds exactly the glyph renderers of the set
\* (after A is removed from {A, B}: one entry, for B) and the inspect listeners
\* are exactly their data sources (none on A's), and the handlers that follow
\* leave it so.
C2_Rebuild == [](C2_After) /\ [][C2_Stays]_vars

C2_Witness ==
  /\ last = "resume_latest" /\ pending = {} /\ tooltips.kind # "null"
  /\ renderers = {"B"} /\ DOMAIN ttmodels = {"B"} /\ listeners = {data_source("B")}

\* C8 (as amended): two glyph renderers of the mapping have the same Tooltip
\* exactly when they belong to the same computed renderer: distinct computed
\* renderers have distinct Tooltips, the node and the edge renderer of a graph
\* renderer share one.
C8_Shared ==
  \A g1 \in DOMAIN ttmodels, g2 \in DOMAIN ttmodels :
    (ttmodels[g1] = ttmodels[g2]) <=> (owner(g1) = owner(g2))

C8_Witness ==
  /\ ~in_flight
  /\ DOMAIN ttmodels = {"B", "GN", "GE"}
  /\ ttmodels["GN"] = ttmodels["GE"] /\ ttmodels["B"] # ttmodels["GN"]

\* C8 as stated: after a completed rebuild no two distinct glyph renderers
\* map to the same Tooltip.
C8_Original ==
  ~in_flight =>
    \A g1 \in DOMAIN ttmodels, g2 \in DOMAIN ttmodels : g1 # g2 => ttmodels[g1] # ttmodels[g2]

C9_Step ==
  last' = "update_no_tooltip" => (~raised' /\ tts' = tts /\ template_el' = template_el)

C10_LastWriteWins == (~in_flight /\ tooltips.kind # "null") => rebuilt

\* ======================================================================
\* The tool with label/value-list specifications that change: hits are
\* rendered between the changes of model.tooltips.
\* ======================================================================
ListSpecs == {[kind |-> "list", id |-> 1], [kind |-> "list", id |-> 2]}

TemplateInit ==
  /\ pc = "start"
  /\ active = TRUE
  /\ mode = "mouse"
  /\ line_policy = "nearest"
  /\ tooltips \in ListSpecs
  /\ template_view = Null
  /\ template_el = Null
  /\ renderers = {"A", "B"}
  /\ rviews = DataRenderers
  /\ ttmodels = <<>>
  /\ tts = <<>>
  /\ listeners = {}
  /\ pending = {}
  /\ next_id = 0
  /\ inspected = not_inspected
  /\ raised = FALSE
  /\ last = "other"
  /\ muted_policy = "show"
  /\ muted = {}
  /\ callback = FALSE
  /\ calls = <<>>
  /\ notified = {}

TemplateNext ==
  \/ LazyInitialize
  \/ \E p \in pending : ResumeUpdateTtmodels(p)
  \/ \E tt \in ListSpecs \cup {[kind |-> "null", id |-> 0]} : SetTooltips(tt)
  \/ \E met \in Scenes : MoveInside(1, 1, hit_tests(met))
  \/ MoveExit

SpecTemplateInit == TemplateInit /\ HitIdle /\ TvIdle /\ TpIdle

SpecTemplate == SpecTemplateInit /\ [][TemplateNext]_vars

\* ----------------------------------------------------------------------
\* Properties of the handlers
\* ----------------------------------------------------------------------
in_frame == build_geometry(mode, 1, 1)

\* C11, the inspect signal: while the tool is active, an update for a muted
\* renderer under the policy "ignore" changes no Tooltip, renders nothing,
\* notifies nobody and raises nothing; under the policy "show" its outcome
\* is that of the processing of an unmuted renderer.
C11_Signal ==
  \A gr \in muted : \A sel \in Selections(gr) :
    (active /\ gr \in DOMAIN ttmodels /\ ExternalInspect(gr, sel, 1, 1)) =>
       IF muted_policy = "ignore"
         THEN tts' = tts /\ template_el' = template_el /\ notified' = {} /\ ~raised'
         ELSE handler_done(update_tooltip(handler_state, gr, sel, in_frame))

\* C11, the pointer: a move inside the frame leaves the Tooltip of a muted
\* renderer as it was under the policy "ignore".
C11_Move ==
  \A gr \in muted : \A met \in Scenes :
    (muted_policy = "ignore" /\ gr \in DOMAIN ttmodels /\ MoveInside(1, 1, hit_tests(met))) =>
       tts'[ttmodels[gr]] = tts[ttmodels[gr]]

\* C11: the muted policy "ignore" makes every inspect update of a muted
\* renderer a no-op on its Tooltip; the policy "show" processes a muted
\* renderer like an unmuted one.
C11_Muted == [][C11_Signal /\ C11_Move]_vars

\* the Tooltip of B was shown, B was muted, and an update for B was ignored
C11_Witness ==
  /\ last = "update_ignored"
  /\ "B" \in muted /\ "B" \in DOMAIN ttmodels
  /\ tts[ttmodels["B"]].position # Null
  /\ tts[ttmodels["B"]].content # <<>>

\* the computed renderers that are glyph renderers and have a view
called_back == {r \in renderers \cap rviews : is_glyph_renderer(r)}

\* the callback ran once for each renderer of P, and for nothing else, with
\* the geometry and its data coordinates, the renderer, and the selection
\* this inspection left on the renderer's data source
C12_Called(P, sels, geometry) ==
  /\ Len(calls') = Cardinality(P)
  /\ \A r \in P : \E k \in DOMAIN calls' :
       calls'[k] = [geometry |-> [x |-> x_invert(geometry.sx), y |-> y_invert(geometry.sy), g |-> geometry],
                    renderer |-> r,
                    index |-> Some(sels[r])]

\* the inspections a step runs, with the renderers P expected to be called
C12_Step(P) ==
  /\ \A met \in Scenes :
       (active /\ MoveInside(1, 1, hit_tests(met)) /\ ~raised') =>
          C12_Called(P, hit_tests(met), in_frame)
  /\ \A pos \in CtlPositions :
       (active /\ MoveOutside(pos[1], pos[2])) => C12_Called(P, no_hits, sentinel)
  /\ MoveExit => C12_Called(P, no_hits, sentinel)

\* C12 as amended: with a callback set, every inspection that completes
\* (the sentinel one included) invokes the callback exactly once for each
\* computed renderer that is itself a glyph renderer and has a renderer
\* view, after all renderers were inspected, with the geometry and its data
\* x/y, the renderer and the selection just evaluated; the node and edge
\* renderers of a graph renderer get no invocation, and an inspection in
\* which a handler raises invokes nothing.
C12_Callback ==
  [][callback => (C12_Step(called_back) /\ (raised' => calls' = <<>>))]_vars

\* the callback ran for B alone while the graph renderer G was inspected too
C12_Witness ==
  /\ callback /\ ~raised
  /\ renderers = {"B", "G"}
  /\ inspected["G"] = Some(in_frame)
  /\ Len(calls) = 1
  /\ calls[1].renderer = "B"
  /\ calls[1].index = Some(hit_selection("B"))

\* C12 as stated: once per glyph renderer of the mapping on every inspection
C12_Original == [][callback => C12_Step(mapped)]_vars

\* the Tooltips after the step are those before it, with the positions of
\* the Tooltips in T set to null
C13_Hidden(T) ==
  /\ ttmodels' = ttmodels
  /\ DOMAIN tts' = DOMAIN tts
  /\ \A t \in DOMAIN tts :
       tts'[t] = IF t \in T THEN [tts[t] EXCEPT !.position = Null] ELSE tts[t]

\* the clear steps: the pointer leaves, or moves outside the frame while the
\* tool is active, or an inspect signal carries an empty selection for a
\* renderer with a Tooltip
C13_Step ==
  /\ MoveExit => C13_Hidden(DOMAIN tts)
  /\ \A pos \in CtlPositions :
       (active /\ MoveOutside(pos[1], pos[2])) => C13_Hidden(DOMAIN tts)
  /\ \A gr \in DOMAIN ttmodels :
       (active /\ ~is_ignored(gr) /\ ExternalInspect(gr, empty_selection, 1, 1)) =>
          C13_Hidden({ttmodels[gr]})

\* C13: clearing sets positions to null and changes nothing else: the
\* mapping has the same keys and the same Tooltips, and each Tooltip keeps
\* its content, attachment and arrow flag.
C13_ClearHides == [][C13_Step]_vars

\* after the pointer left, the Tooltip of B is hidden and still holds the
\* content of its last hit
C13_Witness ==
  /\ last = "move_exit"
  /\ "B" \in DOMAIN ttmodels
  /\ tts[ttmodels["B"]].position = Null
  /\ tts[ttmodels["B"]].content # <<>>
  /\ ttmodels["B"] \in notified

\* the hits an update for gr resolves from the selection sel
hits_of(gr, sel) == resolve_hits(glyph_of(gr), sel, in_frame, ctl_cfg, 0).hits

\* the non-null nodes rendered for the hits, in their order
nodes_of(hits) ==
  IF tooltips.kind = "function" /\ tooltips.id = 0
    THEN <<>>
    ELSE [k \in DOMAIN hits |->
            rendered(hits[k], IF tooltips.kind = "list" THEN Some(tooltips)
                              ELSE IF tooltips.kind = "template" THEN template_view
                              ELSE Null)]

\* what the claim states of the Tooltip of gr after an update with sel
C14_Post(gr, sel) ==
  IF (selection_is_empty(sel) /\ ~sel.view) \/ hits_of(gr, sel) = <<>>
    THEN tts'[ttmodels[gr]].position = Null
    ELSE /\ tts'[ttmodels[gr]].content = nodes_of(hits_of(gr, sel))
         /\ tts'[ttmodels[gr]].position =
              <<hits_of(gr, sel)[Len(hits_of(gr, sel))].tt_sx, hits_of(gr, sel)[Len(hits_of(gr, sel))].tt_sy>>
         /\ ttmodels[gr] \in notified'

\* the update is processed: the tool is active, the renderer is not ignored
\* as muted, and its renderer view exists unless the selection is empty
C14_Processed(gr, sel) ==
  /\ active
  /\ ~is_ignored(gr)
  /\ (selection_is_empty(sel) /\ ~sel.view) \/ owner(gr) \in rviews

used_by(rs) == data_sources(glyph_renderers(rs))

\* C15: rewiring detaches only from data sources no longer used, so once
\* the rebuilds have completed the data source of every participating glyph
\* renderer is subscribed.
C15_Subscribed ==
  (~in_flight /\ tooltips.kind # "null") => used_by(renderers) \subseteq listeners

\* ----------------------------------------------------------------------
\* Properties of the compiled template
\* ----------------------------------------------------------------------
\* the compiled template, when there is one, was compiled from the current
\* specification, and so was the template of every node of every Tooltip
C16_Current ==
  /\ template_el # Null => (tooltips.kind = "list" /\ template_el = Some(tooltips))
  /\ \A t \in DOMAIN tts : \A k \in DOMAIN tts[t].content :
       tooltips.kind = "list" => tts[t].content[k].by = Some(tooltips)

\* built lazily by a handler that rendered a hit, kept while the
\* specification stays, dropped when it changes
C16_Step ==
  /\ (template_el = Null /\ template_el' # Null) =>
        \E t \in notified' : tts'[t].content # <<>>
  /\ (template_el # Null /\ tooltips' = tooltips) => template_el' = template_el
  /\ tooltips' # tooltips => template_el' = Null

\* C16: the compiled template of a label/value-list specification is built
\* on the first hit rendered, reused while the specification stays and
\* dropped when it changes, so every hit is rendered with a template
\* compiled from the current specification.
C16_Template == [](C16_Current) /\ [][C16_Step]_vars

\* the specification was changed to a second list and a hit of B was
\* rendered with the template compiled from it
C16_Witness ==
  /\ next_id >= 2
  /\ tooltips = [kind |-> "list", id |-> 2]
  /\ template_el = Some(tooltips)
  /\ "B" \in DOMAIN ttmodels
  /\ tts[ttmodels["B"]].position # Null
  /\ tts[ttmodels["B"]].content[1].by = Some(tooltips)

\* ----------------------------------------------------------------------
\* Properties of the errors
\* ----------------------------------------------------------------------
\* C18: a handler raises only for a multi-segment glyph with a Tooltip under
\* a line policy outside interp, prev, next and nearest.
C18_OnlyInvariant ==
  raised => (line_policy \notin {"interp", "prev", "next", "nearest"} /\ "GE" \in DOMAIN ttmodels)

\* ----------------------------------------------------------------------
\* Properties of the hit resolution, by glyph
\* ----------------------------------------------------------------------
\* the hit is anchored at the raw pointer position given in the input
at_pointer(in, hit) ==
  /\ hit.tt_sx = in.sx /\ hit.tt_sy = in.sy
  /\ hit.tt_x = x_invert(in.sx) /\ hit.tt_y = y_invert(in.sy)

\* C21 as amended: for an area-fill glyph the first hit of every update that
\* is not cleared as an empty selection is anchored at the raw pointer
\* position with canonical index null, and it is the only hit when the
\* selection has no plain index and no image index, as the hit test of the
\* glyph leaves it; each image index and each plain index with a resolvable
\* anchor adds a hit of its own after it.
C21_Patch ==
  (h_out.done /\ h_in.g.kind = "patch") =>
     /\ ~h_out.err
     /\ Len(h_out.hits) >= 1
     /\ h_out.hits[1].index = Null
     /\ at_pointer(h_in, h_out.hits[1])
     /\ (h_in.full.indices = <<>> /\ h_in.full.image_indices = <<>>) => Len(h_out.hits) = 1
     /\ Len(h_out.hits) <= 1 + Len(h_in.full.indices) + Len(h_in.full.image_indices)
     /\ h_in.g.anchors_ok = "all" =>
          Len(h_out.hits) = 1 + Len(h_in.full.indices) + Len(h_in.full.image_indices)
     /\ \A k \in 2..Len(h_out.hits) : h_out.hits[k].index # Null

\* an area-fill glyph hit as a whole (view marker, no index) with the pointer
\* off every sample of the glyph: one hit at the pointer
C21_Witness ==
  /\ h_out.done /\ h_in.g.kind = "patch"
  /\ h_in.full = sel_with(<<>>, <<>>, <<>>, <<>>, TRUE)
  /\ h_in.sx = 1 /\ h_in.sy = 2
  /\ h_in.cfg.point_policy = "snap_to_data"
  /\ Len(h_out.hits) = 1
  /\ h_out.hits[1].tt_sx = 1 /\ h_out.hits[1].tt_sy = 2

\* C21 as stated: exactly one hit whatever the index sets hold
C21_Original ==
  (h_out.done /\ h_in.g.kind = "patch") =>
     /\ Len(h_out.hits) = 1
     /\ h_out.hits[1].index = Null
     /\ at_pointer(h_in, h_out.hits[1])

\* the query of the input
query(in) == build_geometry(in.mode, in.sx, in.sy)

\* C22: a polyline glyph yields one hit per line index i of the selection,
\* in order (and no other hit when the selection holds line indices only);
\* under interp the hit's data point is the glyph's interpolated point, its
\* anchor the image of that point under the coordinate scales, its index i;
\* under a line policy outside interp, prev, next and nearest the anchor is
\* the raw pointer position and the index i.
C22_Polyline ==
  (h_out.done /\ h_in.g.kind = "line") =>
     /\ ~h_out.err
     /\ Len(h_out.hits) >= Len(h_in.full.line_indices)
     /\ (h_in.full.indices = <<>> /\ h_in.full.image_indices = <<>>) =>
          Len(h_out.hits) = Len(h_in.full.line_indices)
     /\ \A k \in 1..Len(h_in.full.line_indices) :
          /\ h_in.cfg.line_policy = "interp" =>
               /\ <<h_out.hits[k].tt_x, h_out.hits[k].tt_y>> =
                    get_interpolation_hit(h_in.g, h_in.full.line_indices[k], query(h_in))
               /\ h_out.hits[k].tt_sx = x_compute(h_out.hits[k].tt_x)
               /\ h_out.hits[k].tt_sy = y_compute(h_out.hits[k].tt_y)
               /\ h_out.hits[k].index = Some(h_in.full.line_indices[k])
          /\ h_in.cfg.line_policy \notin LinePolicies4 =>
               /\ h_out.hits[k].tt_sx = h_in.sx /\ h_out.hits[k].tt_sy = h_in.sy
               /\ h_out.hits[k].index = Some(h_in.full.line_indices[k])

\* two segments of a polyline hit under interp, the pointer off the samples
C22_Witness ==
  /\ h_out.done /\ h_in.g.kind = "line"
  /\ h_in.cfg.line_policy = "interp"
  /\ h_in.full.line_indices = <<0, 1>>
  /\ h_in.sx = 1 /\ h_in.sy = 2
  /\ Len(h_out.hits) = 2
  /\ h_out.hits[2].index = Some(1)
  /\ h_out.hits[2].tt_x = 0 /\ h_out.hits[2].tt_sx = 1

\* C23: under prev, next and nearest every polyline or multi-segment hit has
\* its anchor-adjusted screen coordinates, its anchor-adjusted data
\* coordinates and its reported index on one sample of the series: the
\* sample of the reported index.
C23_SameSample ==
  is_line_case(h_in, h_out, {"prev", "next", "nearest"}) =>
    \A k \in 1..Len(h_out.hits) :
      /\ h_out.hits[k].tt_sx = At(hit_series(h_in, k)[1], reported(h_in, h_out.hits[k])[1])
      /\ h_out.hits[k].tt_sy = At(hit_series(h_in, k)[2], reported(h_in, h_out.hits[k])[1])
      /\ h_out.hits[k].tt_x = x_invert(At(hit_series(h_in, k)[1], reported(h_in, h_out.hits[k])[1]))
      /\ h_out.hits[k].tt_y = y_invert(At(hit_series(h_in, k)[2], reported(h_in, h_out.hits[k])[1]))

\* ----------------------------------------------------------------------
\* Properties of the inactive tool
\* ----------------------------------------------------------------------
\* C24: while the tool is inactive, a pointer move (inside or outside the
\* frame) and an inspect update leave every Tooltip and the compiled template
\* as they were, inspect no renderer, do not invoke the callback, notify no
\* Tooltip and raise nothing. The pointer exit is the one handler that does
\* not test model.active: it still hides the Tooltips.
C24_Step ==
  (~active /\ ~active' /\ last' # "move_exit") =>
    /\ tts' = tts
    /\ template_el' = template_el
    /\ inspected' = not_inspected
    /\ calls' = <<>>
    /\ notified' = {}
    /\ ~raised'

C24_Inactive == [][C24_Step]_vars

\* a Tooltip shown when the tool was deactivated is still shown after a
\* pointer move outside the frame
C24_Witness ==
  /\ ~active
  /\ last = "move_out"
  /\ \E t \in DOMAIN tts : tts[t].position # Null

\* ----------------------------------------------------------------------
\* Properties of the template view
\* ----------------------------------------------------------------------
\* C25: when a handler renders a hit while the tooltip specification is a
\* Template, the template view exists and was built from the specification
\* current at that time, so the rendering does not raise. The error of a
\* multi-segment glyph under a line policy outside interp, prev, next and
\* nearest is left out: it is thrown before anything is rendered.
C25_TemplateView ==
  (tooltips.kind = "template" /\ raised /\ line_policy \in {"interp", "prev", "next", "nearest"}) =>
    template_view = Some(tooltips)
====
